---- MODULE Spec2Model ----
(***************************************************************************)
(* Layout solver of livinit_pipeline: the gradient solver and its          *)
(* post-processing (pipeline/nodes/run_layoutvlm.py) and the consistency   *)
(* filter of LayoutVLM (LayoutVLM/src/layoutvlm/sandbox.py).               *)
(*                                                                         *)
(* Geometry is kept exact on an integer grid: rooms are rectilinear        *)
(* polygons with integer vertices, footprints have even integer sides      *)
(* (so half extents are integers) and orientations are quarter turns.      *)
(* The 0.01 buffer of the containment test is below the grid resolution,   *)
(* so "inside the buffered room" is "inside or on the boundary".           *)
(* Distances that the code compares after a square root are compared by    *)
(* their squares (as exact fractions where a division occurs).             *)
(***************************************************************************)
EXTENDS Integers, Sequences, FiniteSets, TLC

(***************************************************************************)
(* Bounds of the model and constants of the program                        *)
(***************************************************************************)
\* iterations argument of GradientSolver.optimize (the code's default is 200)
MaxIter == 2
\* most entities in one solve
MaxAssets == 3
\* filter runs on one environment, and requests per run
MaxRuns == 2
MaxBatch == 2
\* range(3) translation attempts per entity in project_back
ProjPasses == 3
\* best-snapshot cadence (i % 10) and projection / decay cadence (i % 100)
SnapEvery == 10
ProjEvery == 100
\* loss weights: overlap * 1000 + boundary * 500 + closs, corner term * 0.1
Wov == 1000
Wb == 500
\* get_height's default when cfg has no bounding box for the uid
DefaultHeight == 3
\* the filter rejects a 4th non-void distance constraint (count > 2)
MaxDistCount == 2

(***************************************************************************)
(* Arithmetic helpers                                                      *)
(***************************************************************************)
Abs(n) == IF n < 0 THEN -n ELSE n
Min2(a, b) == IF a <= b THEN a ELSE b
Max2(a, b) == IF a >= b THEN a ELSE b
Sq(n) == n * n
Sgn(n) == IF n > 0 THEN 1 ELSE IF n < 0 THEN -1 ELSE 0
ClampI(v, lo, hi) == Max2(lo, Min2(v, hi))
Relu(n) == Max2(n, 0)
DistSq(p, q) == Sq(p[1] - q[1]) + Sq(p[2] - q[2])

RECURSIVE GCD(_, _)
GCD(a, b) == IF b = 0 THEN Abs(a) ELSE GCD(b, a % b)

RECURSIVE SumSeq(_)
SumSeq(s) == IF s = <<>> THEN 0 ELSE Head(s) + SumSeq(Tail(s))

RECURSIVE Perms(_)
Perms(S) ==
    IF S = {} THEN { <<>> }
    ELSE UNION { { <<x>> \o p : p \in Perms(S \ {x}) } : x \in S }

(***************************************************************************)
(* Identifiers.  The code tests ids by prefix or substring; the model      *)
(* carries the ids it uses and the outcome of those tests on them.         *)
(***************************************************************************)
FurnitureIds == {"sofa_16", "table_30", "lamp_1", "rug_8"}
VoidIds == {"void_door_0"}
FixedIds == {"fixed_point_0"}
EntityIds == FurnitureIds \cup VoidIds
WallIds == <<"walls_0", "walls_1", "walls_2", "walls_3", "walls_4", "walls_5">>

IsRug(id) == id = "rug_8"
IsVoid(id) == id \in VoidIds
IsFixedPoint(id) == id \in FixedIds
IsWall(id) == \E k \in 1..Len(WallIds) : WallIds[k] = id
WallIndex(id) == CHOOSE k \in 1..Len(WallIds) : WallIds[k] = id

(***************************************************************************)
(* Rooms: ordered rectilinear polygons; wall i joins vertex i and i+1      *)
(***************************************************************************)
RoomRect == << <<0, 0>>, <<6, 0>>, <<6, 6>>, <<0, 6>> >>
RoomL == << <<0, 0>>, <<6, 0>>, <<6, 3>>, <<3, 3>>, <<3, 6>>, <<0, 6>> >>
Rooms == {RoomRect, RoomL}

Corner1(rm, k) == rm[k]
Corner2(rm, k) == rm[(k % Len(rm)) + 1]
RoomWalls(rm) == { WallIds[k] : k \in 1..Len(rm) }

\* Nearest point of an axis-parallel segment to p
NearestOnSeg(p, a, b) ==
    << ClampI(p[1], Min2(a[1], b[1]), Max2(a[1], b[1])),
       ClampI(p[2], Min2(a[2], b[2]), Max2(a[2], b[2])) >>

SegDistSq(rm, k, p) == DistSq(p, NearestOnSeg(p, Corner1(rm, k), Corner2(rm, k)))

OnBoundary(rm, p) == \E k \in 1..Len(rm) : SegDistSq(rm, k, p) = 0

\* crossing count of a ray to the right of p over the vertical edges
InsideStrict(rm, p) ==
    LET hit == { k \in 1..Len(rm) :
                   /\ Corner1(rm, k)[1] = Corner2(rm, k)[1]
                   /\ Corner1(rm, k)[1] > p[1]
                   /\ Min2(Corner1(rm, k)[2], Corner2(rm, k)[2]) <= p[2]
                   /\ p[2] < Max2(Corner1(rm, k)[2], Corner2(rm, k)[2]) }
    IN Cardinality(hit) % 2 = 1

\* poly.buffer(0.01).contains(Point(c))
Contains(rm, p) == OnBoundary(rm, p) \/ InsideStrict(rm, p)

\* poly.exterior.interpolate(poly.exterior.project(Point(c))): the nearest
\* point of the ring, the first segment in ring order on a tie
ProjectToExterior(rm, p) ==
    LET k == CHOOSE k \in 1..Len(rm) :
                /\ \A j \in 1..Len(rm) : SegDistSq(rm, k, p) <= SegDistSq(rm, j, p)
                /\ \A j \in 1..(k - 1) : SegDistSq(rm, j, p) > SegDistSq(rm, k, p)
    IN NearestOnSeg(p, Corner1(rm, k), Corner2(rm, k))

\* Polygon(boundary).centroid as an exact fraction <<numx, numy, den>>
Centroid(rm) ==
    LET n == Len(rm)
        cr(k) == Corner1(rm, k)[1] * Corner2(rm, k)[2]
                 - Corner2(rm, k)[1] * Corner1(rm, k)[2]
        a2 == SumSeq([k \in 1..n |-> cr(k)])
        nx == SumSeq([k \in 1..n |-> (Corner1(rm, k)[1] + Corner2(rm, k)[1]) * cr(k)])
        ny == SumSeq([k \in 1..n |-> (Corner1(rm, k)[2] + Corner2(rm, k)[2]) * cr(k)])
        g == GCD(GCD(nx, ny), 3 * a2)
    IN << nx \div g, ny \div g, (3 * a2) \div g >>

FracEq(f, g) == f[1] * g[2] = g[1] * f[2]

\* _point_to_segment_batch_loss: squared distance to the closest point of
\* the segment, the projection clamped to [0, 1]; <<numerator, denominator>>
PointToSegmentBatchLoss(p, a, b) ==
    LET dx == b[1] - a[1]
        dy == b[2] - a[2]
        den == dx * dx + dy * dy
        t == ClampI((p[1] - a[1]) * dx + (p[2] - a[2]) * dy, 0, den)
    IN << Sq(a[1] * den + t * dx - p[1] * den) + Sq(a[2] * den + t * dy - p[2] * den),
          Sq(den) >>

(***************************************************************************)
(* TorchAsset: rotation is stored as the unit vector of rz - pi/2          *)
(***************************************************************************)
\* [cos(rz), sin(rz)] with rz = rot[-1] - pi/2, for rot[-1] = k * pi/2
RotVec(k) ==
    CASE k = 0 -> <<0, -1>>
      [] k = 1 -> <<1, 0>>
      [] k = 2 -> <<0, 1>>
      [] OTHER -> <<-1, 0>>

\* TorchAsset.get_2dvector(add_radian=-radians(angle)), angle a multiple of 90
Facing(k, angle) == RotVec((k + 4 - ((angle \div 90) % 4)) % 4)

\* TorchAsset.get_2dpolygon
Get2dPolygon(pos, size, k) ==
    LET r == RotVec(k)
        hw == size[1] \div 2
        hd == size[2] \div 2
        loc == << <<-hw, -hd>>, <<-hw, hd>>, <<hw, hd>>, <<hw, -hd>> >>
    IN [n \in 1..4 |->
          << loc[n][1] * r[2] + loc[n][2] * r[1] + pos[1],
             -(loc[n][1] * r[1]) + loc[n][2] * r[2] + pos[2] >>]

\* shapely's Polygon.intersects on two axis-parallel rectangles (closed sets)
Intersects(pa, pb) ==
    LET xs(p) == { p[n][1] : n \in 1..4 }
        ys(p) == { p[n][2] : n \in 1..4 }
        lo(S) == CHOOSE v \in S : \A w \in S : v <= w
        hi(S) == CHOOSE v \in S : \A w \in S : v >= w
    IN /\ lo(xs(pa)) <= hi(xs(pb)) /\ lo(xs(pb)) <= hi(xs(pa))
       /\ lo(ys(pa)) <= hi(ys(pb)) /\ lo(ys(pb)) <= hi(ys(pa))

AllCornersInside(rm, pos, size, k) ==
    \A n \in 1..4 : Contains(rm, Get2dPolygon(pos, size, k)[n])

(***************************************************************************)
(* Constraint requests of the scripted program (ConstraintSolver)          *)
(***************************************************************************)
\* float("nan") as a weight or a loss (finite ones are never negative)
NaN == -1

\* a bound given as None is carried as a negative number
IsNone(v) == v < 0

Req(n, s, t, lo, hi, w, ang) ==
    [name |-> n, ids |-> <<s, t>>, min |-> lo, max |-> hi, weight |-> w, angle |-> ang]
OnTopOf(s, t) == Req("on_top_of", s, t, 0, 0, 1, 0)
SkipOverlap(s, t) == Req("skip_overlap", s, t, 0, 0, 1, 0)
Distance(s, t, lo, hi, w) == Req("distance_constraint", s, t, lo, hi, w, 0)
AlignWith(s, t, ang) == Req("align_with", s, t, 0, 0, 1, ang)
PointTowards(s, t, ang) == Req("point_towards", s, t, 0, 0, 1, ang)
AgainstWall(s, t) == Req("against_wall", s, t, 0, 0, 1, 0)

(***************************************************************************)
(* State                                                                   *)
(***************************************************************************)
VARIABLES
    room,          \* boundary polygon of the solve
    cfg,           \* cfg of SandboxEnv.solve: id -> input placement and size
    program,       \* the constraint requests the program registers, in order
    pc,            \* position of the run
    assets,        \* TorchAsset parameters: id -> [pos, z, rot]
    constraints,   \* build_constraints: list handed to optimize
    skipPairs,     \* GradientSolver.on_top_of (= skip_overlap_pairs)
    onTopPairs,    \* SandboxEnv.on_top_of_pairs
    iter,          \* loop index i of optimize
    mom,           \* sign of Adam's first moment of each position coordinate
    rmom,          \* whether Adam's first moment of the rotation is non-zero
    bestLoss,      \* best_loss (scaled), -1 for float("inf")
    best,          \* best: id -> [pos, z, rot] snapshot
    results,       \* return value of optimize
    layout,        \* final_layout of run_layoutvlm_node: id -> [pos, z, rot]
    order,         \* key order of the layout dict
    closs,         \* closs of the last iteration (scaled), NaN when not finite
    nonFinite,     \* ids whose position and rotation tensors hold NaN
    allConstraints,   \* SandBoxEnv.all_constraints
    onTopOfAssets,    \* SandBoxEnv.grad_solver.on_top_of_assets
    solverAssets,     \* solver_assets of the current filter run
    filtered,         \* filtered_new_constraints of the last filter run
    flog,             \* new_constraint_str of the last run, one entry per line
    runs              \* number of filter runs done

solverVars == <<room, cfg, program, pc, assets, constraints, skipPairs, onTopPairs,
                iter, mom, rmom, bestLoss, best, results, layout, order,
                closs, nonFinite>>
filterVars == <<allConstraints, onTopOfAssets, solverAssets, filtered, flog, runs>>
vars == <<solverVars, filterVars>>

Active == DOMAIN cfg
EmptyFun == [x \in {} |-> 0]

\* "optimize" assets that project_back and the boundary loss treat
Movable == { id \in Active : cfg[id].optimize > 0 }

(***************************************************************************)
(* GradientSolver.project_back                                             *)
(***************************************************************************)
RECURSIVE ProjectPasses(_, _, _, _, _)
ProjectPasses(rm, pos, size, k, n) ==
    IF n = 0 THEN pos
    ELSE LET cs == Get2dPolygon(pos, size, k)
             out == { c \in 1..4 : ~Contains(rm, cs[c]) }
         IN IF out = {} THEN pos
            ELSE LET c == CHOOSE c \in out : \A d \in out : c <= d
                     pr == ProjectToExterior(rm, cs[c])
                 IN ProjectPasses(rm, << pos[1] + pr[1] - cs[c][1],
                                         pos[2] + pr[2] - cs[c][2] >>, size, k, n - 1)

\* on_top_base = {top: base for top, base in self.on_top_of}: the last pair wins
HasBase(pairs, id) == \E n \in 1..Len(pairs) : pairs[n][1] = id
BaseOf(pairs, id) ==
    LET n == CHOOSE n \in 1..Len(pairs) :
                /\ pairs[n][1] = id
                /\ \A m \in (n + 1)..Len(pairs) : pairs[m][1] # id
    IN pairs[n][2]

\* z of a projected asset: on its base, or on the floor unless onCeiling
\* (build_assets passes Assets.onCeiling, which init_assets never sets)
PinZ(as, pairs, id) ==
    IF HasBase(pairs, id) /\ BaseOf(pairs, id) \in DOMAIN as
    THEN cfg[BaseOf(pairs, id)].size[3] + cfg[id].size[3] \div 2
    ELSE cfg[id].size[3] \div 2

ProjectBackAll(as, pairs) ==
    [id \in DOMAIN as |->
        [pos |-> ProjectPasses(room, as[id].pos, cfg[id].size, as[id].rot, ProjPasses),
         z |-> PinZ(as, pairs, id),
         rot |-> as[id].rot]]

ProjectBack(as, pairs) ==
    [id \in DOMAIN as |->
        IF id \in Movable
        THEN [pos |-> ProjectPasses(room, as[id].pos, cfg[id].size, as[id].rot, ProjPasses),
              z |-> PinZ(as, pairs, id),
              rot |-> as[id].rot]
        ELSE as[id]]

(***************************************************************************)
(* Losses of one iteration of GradientSolver.optimize.  Values are kept    *)
(* as integers by scaling the whole loss with den^2, den the denominator   *)
(* of the room centroid; gradients are scaled with den.                    *)
(***************************************************************************)
RECURSIVE SumOver(_, _)
SumOver(S, f) ==
    IF S = {} THEN 0
    ELSE LET x == CHOOSE x \in S : TRUE IN f[x] + SumOver(S \ {x}, f)

Poly(as, id) == Get2dPolygon(as[id].pos, cfg[id].size, as[id].rot)

\* skipped_set = {pair for pair in skipped} | {(b, a) for a, b in skipped}
Skipped(pairs, a, b) ==
    \E n \in 1..Len(pairs) : pairs[n] = <<a, b>> \/ pairs[n] = <<b, a>>

\* a pair that _bbox_overlap_loss adds a term for
OverlapPair(as, pairs, a, b) ==
    /\ a # b
    /\ ~Skipped(pairs, a, b)
    /\ ~IsRug(a) /\ ~IsRug(b)
    /\ Intersects(Poly(as, a), Poly(as, b))

\* min_dist ** 2 - dist_sq, min_dist = (dimensions[0] + dimensions[0]) / 2
OverlapHinge(as, a, b) ==
    Sq((cfg[a].size[1] + cfg[b].size[1]) \div 2) - DistSq(as[a].pos, as[b].pos)

BboxOverlapLoss(as, pairs) ==
    LET ids == DOMAIN as
        prs == { pr \in SUBSET ids : Cardinality(pr) = 2 }
        term == [pr \in prs |->
                   LET a == CHOOSE a \in pr : TRUE
                       b == CHOOSE b \in pr : b # a
                   IN IF OverlapPair(as, pairs, a, b)
                      THEN Relu(OverlapHinge(as, a, b)) ELSE 0]
    IN SumOver(prs, term)

OutsideCorners(as, id) == { n \in 1..4 : ~Contains(room, Poly(as, id)[n]) }

\* den^2 * 10 * _boundary_loss
BoundaryLoss(as, cen) ==
    LET one == [id \in Movable |->
                  SumOver(OutsideCorners(as, id),
                          [n \in 1..4 |->
                             Sq(Poly(as, id)[n][1] * cen[3] - cen[1])
                             + Sq(Poly(as, id)[n][2] * cen[3] - cen[2])])]
    IN SumOver(Movable, one)

\* the constraints the loop evaluates: distance and on_top_of only with a
\* void id among the two, and only when both ids are assets
Evaluated(as, c) ==
    /\ ~( c.name \in {"distance_constraint", "on_top_of"}
          /\ ~(IsVoid(c.ids[1]) \/ IsVoid(c.ids[2])) )
    /\ c.ids[1] \in DOMAIN as
    /\ c.ids[2] \in DOMAIN as

\* _distance_loss on squared centre distance; max None is 1e6
DistanceLoss(as, c) ==
    LET sq == DistSq(as[c.ids[1]].pos, as[c.ids[2]].pos)
        lo == IF IsNone(c.min) THEN 0 ELSE c.min
    IN Relu(Sq(lo) - sq) + (IF IsNone(c.max) THEN 0 ELSE Relu(sq - Sq(c.max)))

\* cosine of the subject's facing (turned by -angle) and the target's facing
AlignCos(as, c) ==
    LET v == Facing(as[c.ids[1]].rot, c.angle)
        t == RotVec(as[c.ids[2]].rot)
    IN v[1] * t[1] + v[2] * t[2]

\* c.evaluate(objs): _c_distance, _c_align_with, _c_on_top_of
CEvaluate(as, c) ==
    CASE c.name = "distance_constraint" -> c.weight * Min2(DistanceLoss(as, c), 1)
      [] c.name = "align_with" -> 1 - AlignCos(as, c)
      [] c.name = "on_top_of" -> 0

\* c.evaluate raises: _c_against_wall reads w.corner1, which a TorchAsset
\* does not have
Raises(as, c) ==
    /\ Evaluated(as, c)
    /\ c.name = "against_wall"
    /\ ~IsWall(c.ids[2])

\* the loop over the constraints stopping at the first evaluator that raises
ConstraintLossAborting(as, cs) ==
    LET stop == { n \in 1..Len(cs) : Raises(as, cs[n]) }
        lim == IF stop = {} THEN Len(cs)
               ELSE (CHOOSE n \in stop : \A m \in stop : n <= m) - 1
    IN SumSeq([n \in 1..lim |-> IF Evaluated(as, cs[n]) THEN CEvaluate(as, cs[n]) ELSE 0])

\* closs: each constraint inside try/except, a raise adds nothing
ConstraintLoss(as, cs) ==
    SumSeq([n \in 1..Len(cs) |->
              IF Evaluated(as, cs[n]) /\ ~Raises(as, cs[n])
              THEN CEvaluate(as, cs[n]) ELSE 0])

\* the loss is finite: no evaluated term is multiplied by a NaN weight and
\* no parameter is NaN
LossFinite(as, cs) ==
    /\ nonFinite = {}
    /\ \A n \in 1..Len(cs) :
          (Evaluated(as, cs[n]) /\ cs[n].name = "distance_constraint")
          => cs[n].weight # NaN

\* loss = overlap * 1000 + boundary * 500 + closs, times den^2
TotalLoss(as, cs, pairs) ==
    LET cen == Centroid(room)
    IN Sq(cen[3]) * Wov * BboxOverlapLoss(as, pairs)
       + (Wb \div 10) * BoundaryLoss(as, cen)
       + Sq(cen[3]) * ConstraintLoss(as, cs)

(***************************************************************************)
(* Gradients (times den) of the loss in the position and (times den) in    *)
(* the angle of an asset with requires_grad                                *)
(***************************************************************************)
PosGrad(as, cs, pairs, cen, id, ax) ==
    LET others == DOMAIN as \ {id}
        ov == [b \in others |->
                 IF OverlapPair(as, pairs, id, b) /\ OverlapHinge(as, id, b) > 0
                 THEN -(2 * Wov * cen[3] * (as[id].pos[ax] - as[b].pos[ax])) ELSE 0]
        bd == [n \in 1..4 |-> (Wb \div 5) * (Poly(as, id)[n][ax] * cen[3] - cen[ax])]
        dc == [n \in 1..Len(cs) |->
                 IF /\ Evaluated(as, cs[n])
                    /\ cs[n].name = "distance_constraint"
                    /\ cs[n].ids[1] = id
                    /\ DistanceLoss(as, cs[n]) <= 1
                 THEN LET sq == DistSq(as[id].pos, as[cs[n].ids[2]].pos)
                          d == as[id].pos[ax] - as[cs[n].ids[2]].pos[ax]
                          lo == IF IsNone(cs[n].min) THEN 0 ELSE cs[n].min
                      IN cs[n].weight * cen[3] *
                           ( (IF Sq(lo) - sq > 0 THEN -(2 * d) ELSE 0)
                           + (IF ~IsNone(cs[n].max) /\ sq - Sq(cs[n].max) > 0
                              THEN 2 * d ELSE 0) )
                 ELSE 0]
    IN SumOver(others, ov) + SumOver(OutsideCorners(as, id), bd) + SumSeq(dc)

RotGradTarget(as, cs, cen, id) ==
    LET p == as[id].pos
        bd == [n \in 1..4 |->
                 LET c == Poly(as, id)[n]
                 IN (Wb \div 5) * ( (c[1] * cen[3] - cen[1]) * (-(c[2] - p[2]))
                                  + (c[2] * cen[3] - cen[2]) * (c[1] - p[1]) )]
        al == [n \in 1..Len(cs) |->
                 IF Evaluated(as, cs[n]) /\ cs[n].name = "align_with"
                    /\ id \in {cs[n].ids[1], cs[n].ids[2]}
                 THEN LET v == Facing(as[cs[n].ids[1]].rot, cs[n].angle)
                          t == RotVec(as[cs[n].ids[2]].rot)
                      IN IF cs[n].ids[1] = id
                         THEN cen[3] * (v[2] * t[1] - v[1] * t[2])
                         ELSE cen[3] * (v[1] * t[2] - v[2] * t[1])
                 ELSE 0]
    IN SumOver(OutsideCorners(as, id), bd) + SumSeq(al)

RotGrad(as, cs, cen, id) ==
    LET p == as[id].pos
        bd == [n \in 1..4 |->
                 LET c == Poly(as, id)[n]
                 IN (Wb \div 5) * ( (c[1] * cen[3] - cen[1]) * (-(c[2] - p[2]))
                                  + (c[2] * cen[3] - cen[2]) * (c[1] - p[1]) )]
        al == [n \in 1..Len(cs) |->
                 IF Evaluated(as, cs[n]) /\ cs[n].name = "align_with" /\ cs[n].ids[1] = id
                 THEN LET v == Facing(as[id].rot, cs[n].angle)
                          t == RotVec(as[cs[n].ids[2]].rot)
                      IN cen[3] * (v[2] * t[1] - v[1] * t[2])
                 ELSE 0]
    IN SumOver(OutsideCorners(as, id), bd) + SumSeq(al)

(***************************************************************************)
(* opt.step(): Adam's update is normalised per coordinate, so every        *)
(* coordinate with a non-zero first moment moves by about the learning     *)
(* rate against the sign of that moment: one grid cell (one quarter turn)  *)
(* in the model.  The moment's sign follows the gradient's, except that    *)
(* an opposite gradient may or may not overturn it.  A coordinate whose    *)
(* gradients have all been zero has a zero moment and does not move.       *)
(***************************************************************************)
SignOpts(sm, sg) ==
    IF sg = 0 THEN {sm} ELSE IF sm = 0 \/ sm = sg THEN {sg} ELSE {sm, sg}

AdamStep(as, cs, pairs, cen, id) ==
    { [pos |-> << as[id].pos[1] - sx, as[id].pos[2] - sy >>,
       rot |-> (as[id].rot + 4 - sr) % 4,
       mom |-> <<sx, sy>>,
       rmom |-> sr] :
        sx \in SignOpts(mom[id][1], Sgn(PosGrad(as, cs, pairs, cen, id, 1))),
        sy \in SignOpts(mom[id][2], Sgn(PosGrad(as, cs, pairs, cen, id, 2))),
        sr \in SignOpts(rmom[id], Sgn(RotGrad(as, cs, cen, id))) }

RECURSIVE ProdFun(_, _)
ProdFun(D, opts) ==
    IF D = {} THEN { EmptyFun }
    ELSE LET e == CHOOSE e \in D : TRUE
         IN { [x \in D |-> IF x = e THEN o ELSE f[x]] :
                o \in opts[e], f \in ProdFun(D \ {e}, opts) }

(***************************************************************************)
(* Inputs of a solve: the cfg and the program handed to SandboxEnv.solve   *)
(***************************************************************************)
SizeOf(id) ==
    CASE id = "sofa_16" -> <<4, 2, 4>>
      [] id = "table_30" -> <<2, 2, 2>>
      [] id = "lamp_1" -> <<2, 2, 6>>
      [] id = "rug_8" -> <<2, 4, 2>>
      [] OTHER -> <<2, 2, 8>>

StartPos(id) ==
    CASE id = "sofa_16" -> { <<2, 1>>, <<5, 5>> }
      [] id = "table_30" -> { <<2, 1>>, <<1, 5>>, <<7, 2>> }
      [] id = "lamp_1" -> { <<2, 1>>, <<4, 2>> }
      [] id = "rug_8" -> { <<2, 2>> }
      [] OTHER -> { <<0, 3>> }

CfgOpts(id) ==
    { [pos |-> p, z |-> z, rot |-> k, size |-> SizeOf(id), optimize |-> o,
       onCeiling |-> FALSE] :
        p \in StartPos(id),
        z \in (IF id = "table_30" THEN {0, SizeOf(id)[3] \div 2} ELSE {0}),
        k \in (IF id = "sofa_16" THEN {0, 1} ELSE {0}),
        o \in (IF id \in {"sofa_16", "table_30"} THEN {0, 1}
               ELSE IF IsVoid(id) THEN {0} ELSE {1}) }

AllPrograms ==
    { <<>>,
      << OnTopOf("lamp_1", "table_30") >>,
      << OnTopOf("lamp_1", "table_30"), OnTopOf("table_30", "sofa_16") >>,
      << OnTopOf("lamp_1", "table_30"), OnTopOf("lamp_1", "sofa_16") >>,
      << OnTopOf("sofa_16", "table_30") >>,
      << OnTopOf("lamp_1", "fixed_point_0") >>,
      << Distance("table_30", "sofa_16", 1, 2, 1) >>,
      << Distance("table_30", "void_door_0", 3, -1, 10) >>,
      << SkipOverlap("table_30", "sofa_16") >>,
      << AlignWith("table_30", "sofa_16", 0) >>,
      << AgainstWall("table_30", "sofa_16"), AlignWith("table_30", "sofa_16", 0) >>,
      << Distance("table_30", "void_door_0", 3, -1, NaN) >> }

ProgramIds(p) == UNION { { p[n].ids[1], p[n].ids[2] } : n \in 1..Len(p) }

(***************************************************************************)
(* SandboxEnv.build_constraints                                            *)
(***************************************************************************)
InFuncMap(c) ==
    c.name \in {"distance_constraint", "point_towards", "align_with",
                "against_wall", "on_top_of"}
IsSkipOrOnTop(c) == c.name \in {"skip_overlap", "on_top_of"}
IsOnTop(c) == c.name = "on_top_of"
PairsOf(cs) == [n \in 1..Len(cs) |-> cs[n].ids]

BuildConstraints(prog) == SelectSeq(prog, InFuncMap)
SkipOverlapPairs(prog) == PairsOf(SelectSeq(prog, IsSkipOrOnTop))
OnTopOfPairs(prog) == PairsOf(SelectSeq(prog, IsOnTop))

\* SandboxEnv.build_assets: one TorchAsset per placed instance
BuildAssets == [id \in Active |-> [pos |-> cfg[id].pos, z |-> cfg[id].z, rot |-> cfg[id].rot]]

(***************************************************************************)
(* post_process_layout                                                     *)
(***************************************************************************)
GetHeight(uid) == IF uid \in DOMAIN cfg THEN cfg[uid].size[3] ELSE DefaultHeight

\* round(r / (pi/4)) * (pi/4) of a quarter turn k: 2k eighth turns
SnapRotation(k) == (2 * k) \div 2

PostOne(lay, pairs, uid) ==
    IF IsVoid(uid) THEN lay[uid]
    ELSE IF HasBase(pairs, uid)
    THEN LET b == BaseOf(pairs, uid)
         IN [pos |-> IF b \in DOMAIN lay THEN lay[b].pos ELSE <<0, 0>>,
             z |-> GetHeight(b),
             rot |-> SnapRotation(lay[uid].rot)]
    ELSE [pos |-> lay[uid].pos, z |-> 0, rot |-> SnapRotation(lay[uid].rot)]

RECURSIVE PostProcessLayout(_, _, _)
PostProcessLayout(lay, pairs, ord) ==
    IF ord = <<>> THEN lay
    ELSE PostProcessLayout([lay EXCEPT ![Head(ord)] = PostOne(lay, pairs, Head(ord))],
                           pairs, Tail(ord))

(***************************************************************************)
(* The solve                                                               *)
(***************************************************************************)
FilterIdle ==
    /\ allConstraints = <<>>
    /\ onTopOfAssets = <<>>
    /\ solverAssets = EmptyFun
    /\ filtered = <<>>
    /\ flog = <<>>
    /\ runs = 0

Init ==
    /\ room \in Rooms
    /\ \E act \in SUBSET EntityIds :
          /\ Cardinality(act) \in 1..MaxAssets
          /\ cfg \in ProdFun(act, [id \in act |-> CfgOpts(id)])
          /\ program \in { p \in AllPrograms : ProgramIds(p) \subseteq act \cup FixedIds }
    /\ pc = "start"
    /\ assets = EmptyFun
    /\ constraints = <<>>
    /\ skipPairs = <<>>
    /\ onTopPairs = <<>>
    /\ iter = 0
    /\ mom = EmptyFun
    /\ rmom = EmptyFun
    /\ bestLoss = -1
    /\ best = EmptyFun
    /\ results = EmptyFun
    /\ layout = EmptyFun
    /\ order = <<>>
    /\ closs = 0
    /\ nonFinite = {}
    /\ FilterIdle

\* SandboxEnv.solve up to optimize's "if not params: return {}"
SolveNoParams ==
    /\ pc = "start"
    /\ Movable = {}
    /\ constraints' = BuildConstraints(program)
    /\ skipPairs' = SkipOverlapPairs(program)
    /\ onTopPairs' = OnTopOfPairs(program)
    /\ assets' = ProjectBack(BuildAssets, SkipOverlapPairs(program))
    /\ results' = EmptyFun
    /\ pc' = "opt_done"
    /\ UNCHANGED <<room, cfg, program, iter, mom, rmom, bestLoss, best, layout, order,
                   closs, nonFinite>>
    /\ UNCHANGED filterVars

\* SandboxEnv.solve up to the first iteration of optimize
SolveBegin ==
    /\ pc = "start"
    /\ Movable # {}
    /\ constraints' = BuildConstraints(program)
    /\ skipPairs' = SkipOverlapPairs(program)
    /\ onTopPairs' = OnTopOfPairs(program)
    /\ assets' = ProjectBack(BuildAssets, SkipOverlapPairs(program))
    /\ mom' = [id \in Movable |-> <<0, 0>>]
    /\ rmom' = [id \in Movable |-> 0]
    /\ iter' = 0
    /\ bestLoss' = -1
    /\ best' = EmptyFun
    /\ pc' = "iter"
    /\ UNCHANGED <<room, cfg, program, results, layout, order, closs, nonFinite>>
    /\ UNCHANGED filterVars

\* one iteration of the loop of optimize
Iterate ==
    /\ pc = "iter"
    /\ iter < MaxIter
    /\ LossFinite(assets, constraints)
    /\ \E f \in ProdFun(Movable,
                        [id \in Movable |->
                           AdamStep(assets, constraints, skipPairs, Centroid(room), id)]) :
          LET stepped == [id \in Active |->
                            IF id \in Movable
                            THEN [pos |-> f[id].pos, z |-> assets[id].z, rot |-> f[id].rot]
                            ELSE assets[id]]
              loss == TotalLoss(assets, constraints, skipPairs)
              snap == iter % SnapEvery = 0 /\ (bestLoss < 0 \/ loss < bestLoss)
          IN /\ assets' = IF iter % ProjEvery = 0
                          THEN ProjectBack(stepped, skipPairs) ELSE stepped
             /\ mom' = [id \in Movable |-> f[id].mom]
             /\ rmom' = [id \in Movable |-> f[id].rmom]
             /\ bestLoss' = IF snap THEN loss ELSE bestLoss
             /\ best' = IF snap THEN [id \in Movable |-> stepped[id]] ELSE best
    /\ iter' = iter + 1
    /\ closs' = ConstraintLoss(assets, constraints)
    /\ UNCHANGED <<room, cfg, program, pc, constraints, skipPairs, onTopPairs,
                   results, layout, order, nonFinite>>
    /\ UNCHANGED filterVars

\* one iteration whose loss is NaN: backward gives NaN gradients,
\* clip_grad_norm_ scales every gradient by a NaN coefficient and opt.step()
\* writes NaN into every parameter; NaN < best_loss is false, no snapshot.
\* The periodic project_back then meets NaN corners: it raises or leaves NaN.
IterateNonFinite ==
    /\ pc = "iter"
    /\ iter < MaxIter
    /\ ~LossFinite(assets, constraints)
    /\ nonFinite' = Movable
    /\ closs' = NaN
    /\ pc' \in (IF iter % ProjEvery = 0 THEN {"iter", "raised"} ELSE {"iter"})
    /\ iter' = iter + 1
    /\ UNCHANGED <<room, cfg, program, assets, constraints, skipPairs, onTopPairs,
                   mom, rmom, bestLoss, best, results, layout, order>>
    /\ UNCHANGED filterVars

\* the loop left before its last iteration
FinishEarly ==
    /\ pc = "iter"
    /\ iter <= MaxIter
    /\ nonFinite = {} \/ best # EmptyFun
    /\ LET restored == [id \in Active |-> IF id \in DOMAIN best THEN best[id] ELSE assets[id]]
           final == ProjectBack(restored, skipPairs)
       IN /\ assets' = final
          /\ results' = [id \in Movable |-> final[id]]
    /\ pc' = "opt_done"
    /\ nonFinite' = {}
    /\ UNCHANGED <<room, cfg, program, constraints, skipPairs, onTopPairs, iter,
                   mom, rmom, bestLoss, best, layout, order, closs>>
    /\ UNCHANGED filterVars

\* after the loop: restore best, final project_back, return the placements
Finish ==
    /\ pc = "iter"
    /\ iter = MaxIter
    /\ nonFinite = {} \/ best # EmptyFun
    /\ LET restored == [id \in Active |-> IF id \in DOMAIN best THEN best[id] ELSE assets[id]]
           final == ProjectBack(restored, skipPairs)
       IN /\ assets' = final
          /\ results' = [id \in Movable |-> final[id]]
    /\ pc' = "opt_done"
    /\ nonFinite' = {}
    /\ UNCHANGED <<room, cfg, program, constraints, skipPairs, onTopPairs, iter,
                   mom, rmom, bestLoss, best, layout, order, closs>>
    /\ UNCHANGED filterVars

\* after a loop that never took a snapshot and left NaN in the parameters:
\* nothing is restored, the final project_back meets NaN corners
FinishNonFinite ==
    /\ pc = "iter"
    /\ iter = MaxIter
    /\ nonFinite # {}
    /\ best = EmptyFun
    /\ \/ /\ pc' = "opt_done"
          /\ results' = [id \in Movable |-> assets[id]]
       \/ /\ pc' = "raised"
          /\ UNCHANGED results
    /\ UNCHANGED <<room, cfg, program, assets, constraints, skipPairs, onTopPairs, iter,
                   mom, rmom, bestLoss, best, layout, order, closs, nonFinite>>
    /\ UNCHANGED filterVars

\* run_layoutvlm_node: the initial layout with the results merged into it
Merged ==
    [id \in Active \ VoidIds |->
        IF id \in DOMAIN results THEN results[id]
        ELSE [pos |-> cfg[id].pos, z |-> cfg[id].z, rot |-> cfg[id].rot]]

\* run_layoutvlm_node: merge the results into the layout and post-process it
PostProcess ==
    /\ pc = "opt_done"
    /\ nonFinite = {}
    /\ \E ord \in Perms(Active \ VoidIds) :
          /\ order' = ord
          /\ layout' = PostProcessLayout(Merged, onTopPairs, ord)
    /\ pc' = "post_done"
    /\ UNCHANGED <<room, cfg, program, assets, constraints, skipPairs, onTopPairs,
                   iter, mom, rmom, bestLoss, best, results, closs, nonFinite>>
    /\ UNCHANGED filterVars

\* run_layoutvlm_node when a returned rotation is NaN: round() raises
PostProcessRaise ==
    /\ pc = "opt_done"
    /\ nonFinite \cap DOMAIN results # {}
    /\ pc' = "raised"
    /\ UNCHANGED <<room, cfg, program, assets, constraints, skipPairs, onTopPairs,
                   iter, mom, rmom, bestLoss, best, results, layout, order,
                   closs, nonFinite>>
    /\ UNCHANGED filterVars

Next ==
    \/ SolveNoParams
    \/ SolveBegin
    \/ Iterate
    \/ IterateNonFinite
    \/ Finish
    \/ FinishNonFinite
    \/ PostProcess
    \/ PostProcessRaise

Spec == Init /\ [][Next]_vars

(***************************************************************************)
(* SandBoxEnv (LayoutVLM/src/layoutvlm/sandbox.py): the consistency        *)
(* filter run by every solve of one environment.                           *)
(*                                                                         *)
(* Distances are compared through their squares: a bound or a measured     *)
(* distance v is carried as 4 * v^2, which keeps min and max exact for     *)
(* the irrational centre distances and the half-integer 1.5 * floor.       *)
(***************************************************************************)
SqBound(v) == IF IsNone(v) THEN v ELSE 4 * v * v

\* torch.norm(pos1 - pos2), positions with their z
MeasuredSq(sa, a, b) ==
    4 * (DistSq(sa[a].pos, sa[b].pos) + Sq(sa[a].z - sa[b].z))

\* min(w1, h1) / 2 + min(w2, h2) / 2
MinDistance(sa, a, b) ==
    Min2(sa[a].size[1], sa[a].size[2]) \div 2 + Min2(sa[b].size[1], sa[b].size[2]) \div 2

FloorSq(sa, a, b) == 4 * Sq(MinDistance(sa, a, b))

\* (min_distance * 1.5)^2, times 4
WideSq(sa, a, b) == 9 * Sq(MinDistance(sa, a, b))

ClampMinRequested(lo, d, floor) ==
    IF IsNone(lo) THEN lo
    ELSE IF lo < floor THEN floor ELSE lo

ClampMin(lo, d, floor) ==
    IF IsNone(lo) THEN lo
    ELSE IF Min2(d, lo) < floor THEN floor ELSE Min2(d, lo)

ClampMaxWidened(hi, d, wide) ==
    IF IsNone(hi) THEN hi ELSE Max2(d, hi) + wide

ClampMax(hi, d, wide) ==
    IF IsNone(hi) THEN hi
    ELSE IF Max2(d, hi) < wide THEN wide ELSE Max2(d, hi)

\* get_distance_to_wall: distance to the closest point of the line through
\* the wall's corners, squared, as the fraction <<numerator, denominator>>
LineDistSq(rm, k, p) ==
    LET a == Corner1(rm, k)
        b == Corner2(rm, k)
        cr == (b[1] - a[1]) * (p[2] - a[2]) - (b[2] - a[2]) * (p[1] - a[1])
    IN << Sq(cr), DistSq(a, b) >>

FracLess(f, g) == f[1] * g[2] < g[1] * f[2]

\* the loop over solver_assets keeps the first wall of strictly smaller distance
MinWallId(rm, p) ==
    LET k == CHOOSE k \in 1..Len(rm) :
                 /\ \A j \in 1..Len(rm) : ~FracLess(LineDistSq(rm, j, p), LineDistSq(rm, k, p))
                 /\ \A j \in 1..(k - 1) : FracLess(LineDistSq(rm, k, p), LineDistSq(rm, j, p))
    IN WallIds[k]

HasFixedPointNever(c) == FALSE

HasFixedPoint(c) == IsFixedPoint(c.ids[1]) \/ IsFixedPoint(c.ids[2])

ExistingCountNone(cs, name, subject) == 0

\* sum(1 for c in all_constraints + filtered if same name and same subject)
ExistingCount(cs, name, subject) ==
    Cardinality({ n \in 1..Len(cs) : cs[n].name = name /\ cs[n].ids[1] = subject })

HasAny(cs, names, subject) ==
    \E n \in 1..Len(cs) : cs[n].name \in names /\ cs[n].ids[1] = subject

\* the names the point_towards branch and the align_with branch look for
PointTowardsBlockers == {"point_towards", "against_wall"}
AlignWithBlockers == {"align_with", "against_wall"}

Line(tag, c) == [tag |-> tag, req |-> c]

\* first loop: on_top_of requests, one stacking parent per subject
RECURSIVE OnTopPass(_, _)
OnTopPass(batch, acc) ==
    IF batch = <<>> THEN acc
    ELSE LET c == Head(batch)
         IN IF c.name = "on_top_of" /\ ~HasFixedPoint(c)
                /\ ~HasBase(acc.onTop, c.ids[1])
            THEN OnTopPass(Tail(batch),
                           [onTop |-> Append(acc.onTop, c.ids),
                            out |-> Append(acc.out, c),
                            log |-> Append(acc.log, Line("accepted", c))])
            ELSE OnTopPass(Tail(batch), acc)

FilterAgainstWall(sa, rm, all, acc, c) ==
    IF ExistingCount(all \o acc.out, c.name, c.ids[1]) > 0
    THEN [acc EXCEPT !.log = acc.log \o << Line("already_specified", c), Line("rejected", c) >>]
    ELSE LET minWall == MinWallId(rm, sa[c.ids[1]].pos)
             ids == << c.ids[1], minWall >>
             d == [c EXCEPT !.ids = ids]
         IN IF minWall # ids[2]
            THEN [acc EXCEPT !.out = acc.out \o << d, d >>,
                             !.log = acc.log \o << Line("updated", d), Line("accepted", d) >>]
            ELSE [acc EXCEPT !.out = Append(acc.out, d),
                             !.log = Append(acc.log, Line("accepted", d))]

FilterDistance(sa, all, acc, c) ==
    IF ExistingCount(all \o acc.out, c.name, c.ids[1]) > MaxDistCount /\ ~IsVoid(c.ids[2])
    THEN [acc EXCEPT !.log = Append(acc.log, Line("rejected", c))]
    ELSE IF sa[c.ids[1]].onCeiling \/ sa[c.ids[2]].onCeiling
    THEN [acc EXCEPT !.log = Append(acc.log, Line("rejected_unsupported", c))]
    ELSE LET d == [c EXCEPT
                     !.min = ClampMin(c.min, MeasuredSq(sa, c.ids[1], c.ids[2]),
                                      FloorSq(sa, c.ids[1], c.ids[2])),
                     !.max = ClampMax(c.max, MeasuredSq(sa, c.ids[1], c.ids[2]),
                                      WideSq(sa, c.ids[1], c.ids[2]))]
         IN [acc EXCEPT !.out = Append(acc.out, d),
                        !.log = Append(acc.log, Line("accepted", d))]

FilterOrientation(all, acc, c, blockers) ==
    IF HasAny(all \o acc.out, blockers, c.ids[1])
    THEN [acc EXCEPT !.log = Append(acc.log, Line("rejected", c))]
    ELSE [acc EXCEPT !.out = Append(acc.out, c),
                     !.log = Append(acc.log, Line("accepted", c))]

\* second loop
RECURSIVE MainPass(_, _, _, _, _)
MainPass(sa, rm, all, batch, acc) ==
    IF batch = <<>> THEN acc
    ELSE LET c == Head(batch)
             nxt == IF HasFixedPoint(c) THEN acc
                    ELSE CASE c.name = "against_wall" -> FilterAgainstWall(sa, rm, all, acc, c)
                           [] c.name = "distance_constraint" -> FilterDistance(sa, all, acc, c)
                           [] c.name = "point_towards" ->
                                 FilterOrientation(all, acc, c, PointTowardsBlockers)
                           [] c.name = "align_with" ->
                                 FilterOrientation(all, acc, c, AlignWithBlockers)
                           [] OTHER -> acc
         IN MainPass(sa, rm, all, Tail(batch), nxt)

SelfConsistencyFiltering(sa, rm, all, onTop, batch) ==
    MainPass(sa, rm, all, batch,
             OnTopPass(batch, [onTop |-> onTop, out |-> <<>>, log |-> <<>>]))

\* build_constraint_functions: requests of a fixed point are not handed on,
\* distance bounds are read from the request
SubjectNotFixed(c) == ~IsFixedPoint(c.ids[1])
ReadBounds(c) == [c EXCEPT !.min = SqBound(c.min), !.max = SqBound(c.max)]
BuildConstraintFunctions(prog) ==
    LET kept == SelectSeq(prog, SubjectNotFixed)
    IN [n \in 1..Len(kept) |->
          IF kept[n].name = "distance_constraint" THEN ReadBounds(kept[n]) ELSE kept[n]]

\* setup_optimization_param: the solver's view of every placed instance
SetupOptimizationParam ==
    [id \in Active |->
       [pos |-> cfg[id].pos, z |-> cfg[id].z, size |-> cfg[id].size,
        onCeiling |-> cfg[id].onCeiling]]

(***************************************************************************)
(* Environments and program segments the filter is run on                  *)
(***************************************************************************)
FilterEntities == {"sofa_16", "table_30", "lamp_1", "void_door_0"}

FilterCfg(id) ==
    { [pos |-> p, size |-> SizeOf(id), rot |-> 0, z |-> SizeOf(id)[3] \div 2,
       optimize |-> IF IsVoid(id) THEN 0 ELSE 1, onCeiling |-> oc] :
        p \in (CASE id = "table_30" -> {<<5, 2>>, <<1, 3>>}
                 [] id = "sofa_16" -> {<<2, 1>>}
                 [] id = "lamp_1" -> {<<1, 5>>}
                 [] OTHER -> {<<0, 3>>}),
        oc \in (IF id = "lamp_1" THEN {FALSE, TRUE} ELSE {FALSE}) }

RequestPool ==
    { AgainstWall("table_30", "walls_0"), AgainstWall("table_30", "walls_2"),
      AgainstWall("sofa_16", "walls_0"),
      PointTowards("table_30", "sofa_16", 0), AlignWith("table_30", "sofa_16", 0),
      Distance("table_30", "sofa_16", 1, 2, 1),
      Distance("table_30", "sofa_16", 6, 1, 1),
      Distance("table_30", "void_door_0", 3, -1, 10),
      Distance("table_30", "lamp_1", 5, 6, 1),
      OnTopOf("lamp_1", "table_30"), OnTopOf("lamp_1", "sofa_16"),
      OnTopOf("lamp_1", "fixed_point_0"),
      PointTowards("fixed_point_0", "sofa_16", 0),
      PointTowards("table_30", "fixed_point_0", 0) }

Batches == UNION { [1..n -> RequestPool] : n \in 1..MaxBatch }

InitFilter ==
    /\ room \in Rooms
    /\ cfg \in ProdFun(FilterEntities, [id \in FilterEntities |-> FilterCfg(id)])
    /\ program = <<>>
    /\ pc = "env"
    /\ assets = EmptyFun
    /\ constraints = <<>>
    /\ skipPairs = <<>>
    /\ onTopPairs = <<>>
    /\ iter = 0
    /\ mom = EmptyFun
    /\ rmom = EmptyFun
    /\ bestLoss = -1
    /\ best = EmptyFun
    /\ results = EmptyFun
    /\ layout = EmptyFun
    /\ order = <<>>
    /\ closs = 0
    /\ nonFinite = {}
    /\ FilterIdle

\* SandBoxEnv.solve: one program segment is filtered and what it keeps
\* joins all_constraints
FilterRun ==
    /\ pc = "env"
    /\ runs < MaxRuns
    /\ \E batch \in Batches :
       \E r \in { SelfConsistencyFiltering(SetupOptimizationParam, room, allConstraints,
                                           onTopOfAssets, BuildConstraintFunctions(batch)) } :
          /\ program' = batch
          /\ solverAssets' = SetupOptimizationParam
          /\ filtered' = r.out
          /\ flog' = r.log
          /\ onTopOfAssets' = r.onTop
          /\ allConstraints' = allConstraints \o r.out
    /\ runs' = runs + 1
    /\ UNCHANGED <<room, cfg, pc, assets, constraints, skipPairs, onTopPairs,
                   iter, mom, rmom, bestLoss, best, results, layout, order,
                   closs, nonFinite>>

\* a statement of a program segment that raises when executed
Fault == Req("raise", "undefined", "undefined", 0, 0, 1, 0)

FaultBatches ==
    { << Fault >>,
      << OnTopOf("lamp_1", "table_30"), Fault, AlignWith("table_30", "sofa_16", 0) >> }

\* SandBoxEnv.solve on a segment with a faulting statement: execute_code
\* runs exec outside any try, the exception leaves solve before
\* build_constraint_functions and the filter, nothing is returned; the
\* environment is not followed further
FilterFault ==
    /\ pc = "env"
    /\ runs < MaxRuns
    /\ program' \in FaultBatches
    /\ pc' = "raised"
    /\ filtered' = <<>>
    /\ flog' = <<>>
    /\ UNCHANGED <<room, cfg, assets, constraints, skipPairs, onTopPairs,
                   iter, mom, rmom, bestLoss, best, results, layout, order,
                   closs, nonFinite>>
    /\ UNCHANGED <<allConstraints, onTopOfAssets, solverAssets, runs>>

NextFilter ==
    \/ FilterRun
    \/ FilterFault

SpecFilter == InitFilter /\ [][NextFilter]_vars

(***************************************************************************)
(* Properties of a solve: optimize followed by post_process_layout.        *)
(***************************************************************************)
Solved == pc = "post_done"

Returned == DOMAIN results

OutPoly(id) == Get2dPolygon(layout[id].pos, cfg[id].size, layout[id].rot)

OutInside(id) ==
    AllCornersInside(room, layout[id].pos, cfg[id].size, layout[id].rot)

NamedTogether(a, b) ==
    \E i \in 1..Len(program) : {a, b} \subseteq {program[i].ids[1], program[i].ids[2]}

OverlapExempt(a, b) ==
    \/ IsRug(a) \/ IsRug(b)
    \/ Skipped(skipPairs, a, b)
    \/ Skipped(onTopPairs, a, b)

\* C1: after a successful solve every returned movable entity has all four
\* corners of its footprint inside the room boundary.
C1_Counterexample ==
    Solved => \A id \in Returned : OutInside(id)

\* C2: after a solve no two movable entities that are not overlap-exempt
\* have intersecting output footprints.
C2_Counterexample ==
    Solved =>
        \A a \in Returned, b \in Returned :
            (a # b /\ ~OverlapExempt(a, b)) => ~Intersects(OutPoly(a), OutPoly(b))

\* C3: two movable, non-exempt entities that start a solve at the same
\* centre with no constraint between them end it with different centres
\* and disjoint footprints.
C3_Counterexample ==
    Solved =>
        \A a \in Returned, b \in Returned :
            (/\ a # b
             /\ cfg[a].pos = cfg[b].pos
             /\ ~OverlapExempt(a, b)
             /\ ~NamedTogether(a, b))
            => (/\ layout[a].pos # layout[b].pos
                /\ ~Intersects(OutPoly(a), OutPoly(b)))

\* Some placement of the subject inside the room is within [min, max] of the
\* target's centre.
DistanceSatisfiable(c) ==
    \E x \in 0..6, y \in 0..6 :
        /\ AllCornersInside(room, <<x, y>>, cfg[c.ids[1]].size, cfg[c.ids[1]].rot)
        /\ Sq(c.min) <= DistSq(<<x, y>>, cfg[c.ids[2]].pos)
        /\ DistSq(<<x, y>>, cfg[c.ids[2]].pos) <= Sq(c.max)

DistanceCase(c) ==
    /\ c.name = "distance_constraint"
    /\ ~IsNone(c.min) /\ ~IsNone(c.max)
    /\ c.ids[1] \in Returned
    /\ c.ids[2] \in Active \ Movable
    /\ DistanceSatisfiable(c)

\* C4: a movable subject with a Distance(min, max) constraint to a frozen
\* target, in a room with space to satisfy it, ends with its centre within
\* [min, max] of the target's centre and with its footprint inside the room.
C4_Counterexample ==
    Solved =>
        \A i \in 1..Len(program) :
            DistanceCase(program[i]) =>
                LET c == program[i]
                    d2 == DistSq(layout[c.ids[1]].pos, cfg[c.ids[2]].pos)
                IN  /\ Sq(c.min) <= d2 /\ d2 <= Sq(c.max)
                    /\ OutInside(c.ids[1])

\* C5: after post-processing every stacked entity has the x,y of its base's
\* final x,y and z equal to the base's height, whatever the order of the
\* entities in the layout map.
C5_Counterexample ==
    Solved =>
        \A id \in DOMAIN layout :
            (HasBase(onTopPairs, id) /\ BaseOf(onTopPairs, id) \in DOMAIN layout) =>
                /\ layout[id].pos = layout[BaseOf(onTopPairs, id)].pos
                /\ layout[id].z = GetHeight(BaseOf(onTopPairs, id))

\* C9: at most one stacking parent is registered per subject in the
\* stacking map and in the overlap-exemption pairs built from a program.
C9_Counterexample ==
    pc # "start" =>
        \A id \in Active :
            /\ Cardinality({ n \in 1..Len(onTopPairs) : onTopPairs[n][1] = id }) <= 1
            /\ Cardinality({ n \in 1..Len(skipPairs) :
                               /\ skipPairs[n][1] = id
                               /\ \E m \in 1..Len(onTopPairs) : onTopPairs[m] = skipPairs[n] }) <= 1

(***************************************************************************)
(* Properties of the consistency filter                                    *)
(***************************************************************************)
CountOf(cs, name, subject) ==
    Cardinality({ n \in 1..Len(cs) : cs[n].name = name /\ cs[n].ids[1] = subject })

\* requests of the last program segment that reach the filter's second loop
RequestedOf(name, subject) ==
    Cardinality({ n \in 1..Len(program) :
                    /\ program[n].name = name
                    /\ program[n].ids[1] = subject
                    /\ ~HasFixedPoint(program[n]) })

RejectedOf(name, subject) ==
    Cardinality({ n \in 1..Len(flog) :
                    /\ flog[n].tag = "rejected"
                    /\ flog[n].req.name = name
                    /\ flog[n].req.ids[1] = subject })

\* C6: the target of every accepted AgainstWall is a wall edge whose
\* distance, measured to the wall segment, from the subject's pre-solve
\* position is minimal over all wall edges.
C6_Counterexample ==
    \A n \in 1..Len(filtered) :
        filtered[n].name = "against_wall" =>
            \A k \in 1..Len(room) :
                SegDistSq(room, WallIndex(filtered[n].ids[2]),
                          solverAssets[filtered[n].ids[1]].pos)
                    <= SegDistSq(room, k, solverAssets[filtered[n].ids[1]].pos)

\* C7: after any sequence of filter runs the accepted constraints hold at
\* most one AgainstWall per subject, and every AgainstWall request of a run
\* that is not accepted is recorded as rejected in the log.
C7_Theorem ==
    \A s \in Active :
        /\ CountOf(allConstraints, "against_wall", s) <= 1
        /\ RequestedOf("against_wall", s)
              = CountOf(filtered, "against_wall", s) + RejectedOf("against_wall", s)

\* a later run asked again for a wall for a subject that already had one
C7_Witness ==
    \E s \in Active :
        /\ runs = 2
        /\ CountOf(allConstraints, "against_wall", s) = 1
        /\ CountOf(filtered, "against_wall", s) = 0
        /\ RequestedOf("against_wall", s) > 0
        /\ RejectedOf("against_wall", s) = RequestedOf("against_wall", s)

\* C8: after any sequence of filter runs the accepted constraints hold at
\* most one orientation constraint per subject, PointTowards and AlignWith
\* counted together.
C8_Counterexample ==
    \A s \in Active :
        CountOf(allConstraints, "point_towards", s)
            + CountOf(allConstraints, "align_with", s) <= 1

\* C10: the Distance clamp is idempotent: applied to the bounds it produced,
\* with the placements unchanged, it returns the same bounds.
C10_Theorem ==
    \A n \in 1..Len(filtered) :
        filtered[n].name = "distance_constraint" =>
            LET a == filtered[n].ids[1]
                b == filtered[n].ids[2]
            IN /\ ClampMin(filtered[n].min, MeasuredSq(solverAssets, a, b),
                           FloorSq(solverAssets, a, b)) = filtered[n].min
               /\ ClampMax(filtered[n].max, MeasuredSq(solverAssets, a, b),
                           WideSq(solverAssets, a, b)) = filtered[n].max

\* a Distance request whose two bounds were both moved by the clamp
C10_Witness ==
    \E n \in 1..Len(filtered), m \in 1..Len(program) :
        /\ filtered[n].name = "distance_constraint"
        /\ program[m].name = "distance_constraint"
        /\ program[m].ids = filtered[n].ids
        /\ ~IsNone(program[m].min) /\ ~IsNone(program[m].max)
        /\ SqBound(program[m].min) < filtered[n].min
        /\ SqBound(program[m].max) < filtered[n].max
        /\ filtered[n].min = FloorSq(solverAssets, filtered[n].ids[1], filtered[n].ids[2])

\* C11: every Distance constraint the filter accepts with both bounds
\* present has min' <= max', also when the request had min > max.
C11_Theorem ==
    \A n \in 1..Len(filtered) :
        (/\ filtered[n].name = "distance_constraint"
         /\ ~IsNone(filtered[n].min) /\ ~IsNone(filtered[n].max))
        => filtered[n].min <= filtered[n].max

\* a request with min > max went through the filter and was accepted
C11_Witness ==
    \E n \in 1..Len(filtered), m \in 1..Len(program) :
        /\ filtered[n].name = "distance_constraint"
        /\ program[m].name = "distance_constraint"
        /\ program[m].ids = filtered[n].ids
        /\ ~IsNone(program[m].max)
        /\ program[m].min > program[m].max
        /\ filtered[n].min > SqBound(program[m].max)
        /\ filtered[n].min <= filtered[n].max

\* C12: the distance to a wall is the distance to the nearest point of the
\* wall segment (0 on the segment), in the solver's point-to-segment routine
\* and in the filter's wall-distance routine.
C12_Counterexample ==
    \A id \in DOMAIN solverAssets :
        \A k \in 1..Len(room) :
            /\ FracEq(PointToSegmentBatchLoss(solverAssets[id].pos,
                                              Corner1(room, k), Corner2(room, k)),
                      << SegDistSq(room, k, solverAssets[id].pos), 1 >>)
            /\ FracEq(LineDistSq(room, k, solverAssets[id].pos),
                      << SegDistSq(room, k, solverAssets[id].pos), 1 >>)

\* the requests of the program whose subject and target are both active
PresentRequests ==
    SelectSeq(program, LAMBDA c : c.ids[1] \in Active /\ c.ids[2] \in Active)

\* C13: a request whose subject or target is absent from the active entity
\* set is dropped: the returned layout is the one obtained without it.
C13_Counterexample ==
    Solved => layout = PostProcessLayout(Merged, OnTopOfPairs(PresentRequests), order)

\* C14: with no movable entity the returned placement of every entity
\* equals its input placement (x, y, z and rotation).
C14_Counterexample ==
    (Solved /\ Movable = {})
    => \A id \in DOMAIN layout :
          layout[id] = [pos |-> cfg[id].pos, z |-> cfg[id].z, rot |-> cfg[id].rot]

\* C18: post-processing leaves the z of every non-stacked entity at the z
\* the solver pinned for it.
C18_Counterexample ==
    Solved => \A id \in Returned \cap DOMAIN layout :
                 ~HasBase(onTopPairs, id) => layout[id].z = results[id].z

\* C19: an entity with optimize = 0 has the x, y, z and rotation it was
\* built with at every point of optimize: after the initial projection,
\* after every iteration and periodic projection, and after the restore of
\* the best snapshot and the final projection.
C19_Theorem ==
    pc \in {"iter", "opt_done", "post_done"}
    => \A id \in Active \ Movable : assets[id] = BuildAssets[id]

\* optimize has returned, it moved a movable entity, and a frozen piece of
\* furniture that was not at its floor pin is still where it was built
C19_Witness ==
    /\ pc = "opt_done"
    /\ \E f \in Active \ (Movable \cup VoidIds) :
          /\ assets[f].z # PinZ(assets, skipPairs, f)
          /\ assets[f] = BuildAssets[f]
    /\ \E m \in Movable : results[m].pos # cfg[m].pos

\* C15: an iteration whose total loss is not finite applies no update
\* (every parameter keeps its pre-step value) and leaves the best snapshot
\* unchanged.
C15_Counterexample ==
    [][ (pc = "iter" /\ iter < MaxIter /\ ~LossFinite(assets, constraints))
        => /\ assets' = assets
           /\ nonFinite' = nonFinite
           /\ best' = best
           /\ bestLoss' = bestLoss ]_vars

\* the constraints of the list whose evaluator does not raise
NonRaising == SelectSeq(constraints, LAMBDA c : ~Raises(assets, c))

\* C16: an evaluator that raises contributes 0 to the iteration's loss,
\* the other constraints of the list are still evaluated and added, and
\* the loop goes on to the next iteration.
C16_Theorem ==
    [][ (pc = "iter" /\ iter < MaxIter /\ LossFinite(assets, constraints))
        => /\ closs' = ConstraintLoss(assets, NonRaising)
           /\ pc' = "iter"
           /\ iter' = iter + 1 ]_vars

\* the loop ran to the end of its budget with a raising evaluator in front
\* of a constraint that still added a positive term in the last iteration
C16_Witness ==
    /\ pc = "iter"
    /\ iter = MaxIter
    /\ closs > 0
    /\ \E n \in 1..Len(constraints) :
          /\ Raises(assets, constraints[n])
          /\ \E m \in (n + 1)..Len(constraints) :
                Evaluated(assets, constraints[m]) /\ ~Raises(assets, constraints[m])

\* C17: a fault while the requests of a program are applied does not abort
\* the solve: the call still returns to the environment.
C17_Counterexample ==
    (\E n \in 1..Len(program) : program[n] = Fault) => pc # "raised"

\* what the consistency filter lets through of the program of the solve
PassedFilter ==
    SelfConsistencyFiltering(SetupOptimizationParam, room, <<>>, <<>>,
                             BuildConstraintFunctions(program)).out

\* C20: the phases run in the order filter, solver, post-processor: every
\* constraint the solver consumes is one the consistency filter accepted.
C20_Counterexample ==
    pc \in {"iter", "opt_done", "post_done"}
    => \A n \in 1..Len(constraints) :
          \E m \in 1..Len(PassedFilter) :
              /\ PassedFilter[m].name = constraints[n].name
              /\ PassedFilter[m].ids = constraints[n].ids

\* C21: an AgainstWall whose target the filter changed to another wall is
\* recorded in the transcript as rewritten: an entry recorded as plainly
\* accepted carries the wall that was requested.
C21_Counterexample ==
    \A n \in 1..Len(flog) :
        (flog[n].tag = "accepted" /\ flog[n].req.name = "against_wall")
        => \E m \in 1..Len(program) :
              /\ program[m].name = "against_wall"
              /\ program[m].ids = flog[n].req.ids

\* C22: a solve shares no state with the calls before it on the same
\* environment: what a run accepts is what a run on a fresh environment
\* accepts from the same segment and the same placements.
C22_Counterexample ==
    (pc = "env" /\ runs > 0) => filtered = PassedFilter

\* the sum of the losses of every constraint of the list whose two entities
\* exist and whose evaluator returns a value
SumOfConstraintLosses(as, cs) ==
    SumSeq([n \in 1..Len(cs) |->
              IF /\ cs[n].ids[1] \in DOMAIN as
                 /\ cs[n].ids[2] \in DOMAIN as
                 /\ ~(cs[n].name = "against_wall" /\ ~IsWall(cs[n].ids[2]))
              THEN CEvaluate(as, cs[n]) ELSE 0])

\* C23: the constraint part of every iteration's loss is the sum of the
\* losses of every constraint whose two entities exist, a Distance between
\* two pieces of furniture included.
C23_Counterexample ==
    [][ (pc = "iter" /\ iter < MaxIter /\ LossFinite(assets, constraints))
        => closs' = SumOfConstraintLosses(assets, constraints) ]_vars

\* the parameter state recorded in the best snapshot
BestAssets == [id \in Active |-> IF id \in DOMAIN best THEN best[id] ELSE assets[id]]

\* C24: the recorded best loss and the recorded best parameters belong to
\* the same parameter state: the loss evaluated at the snapshot is the
\* recorded loss.
C24_Counterexample ==
    best # EmptyFun => TotalLoss(BestAssets, constraints, skipPairs) = bestLoss

\* the constraints of the list whose subject is id
SubjectOf(cs, id) == SelectSeq(cs, LAMBDA c : c.ids[1] = id)

C26_Counterexample ==
    (pc \in {"iter", "opt_done", "post_done"} /\ nonFinite = {})
    => \A id \in Movable :
          (~HasBase(onTopPairs, id) /\ ~cfg[id].onCeiling)
          => assets[id].z = cfg[id].size[3] \div 2

(***************************************************************************)
(* LayoutVLM's evaluator of on_top_of (constraints.py): the IoU of the two *)
(* footprints, boxes at quarter turns, as <<numerator, denominator>>.      *)
(***************************************************************************)
IntersectionArea(pa, pb) ==
    LET xs(p) == { p[n][1] : n \in 1..4 }
        ys(p) == { p[n][2] : n \in 1..4 }
        lo(S) == CHOOSE v \in S : \A w \in S : v <= w
        hi(S) == CHOOSE v \in S : \A w \in S : v >= w
    IN Relu(Min2(hi(xs(pa)), hi(xs(pb))) - Max2(lo(xs(pa)), lo(xs(pb))))
       * Relu(Min2(hi(ys(pa)), hi(ys(pb))) - Max2(lo(ys(pa)), lo(ys(pb))))

\* on_top_of: torch.clamp(-10 * iou, min=-10, max=10)
LayoutVLMOnTopOf(as, c) ==
    LET a == c.ids[1]
        b == c.ids[2]
        inter == IntersectionArea(Poly(as, a), Poly(as, b))
        union == cfg[a].size[1] * cfg[a].size[2] + cfg[b].size[1] * cfg[b].size[2] - inter
    IN << ClampI(-(10 * inter), -(10 * union), 10 * union), union >>

\* C27: every constraint evaluator returns a value >= 0 for every
\* placement of its two entities, given a non-negative weight.
C27_Counterexample ==
    \A n \in 1..Len(constraints) :
        (constraints[n].ids[1] \in DOMAIN assets /\ constraints[n].ids[2] \in DOMAIN assets)
        => /\ constraints[n].name = "on_top_of"
               => LayoutVLMOnTopOf(assets, constraints[n])[1] >= 0
           /\ (/\ constraints[n].name \in {"distance_constraint", "align_with", "on_top_of"}
               /\ constraints[n].weight >= 0)
               => CEvaluate(assets, constraints[n]) >= 0

\* one translation attempt of project_back: the first corner outside the
\* room is carried to the nearest point of the boundary
ProjectAttempt(rm, pos, size, k) ==
    LET cs == Get2dPolygon(pos, size, k)
        out == { c \in 1..4 : ~Contains(rm, cs[c]) }
    IN IF out = {} THEN pos
       ELSE LET c == CHOOSE c \in out : \A d \in out : c <= d
                pr == ProjectToExterior(rm, cs[c])
            IN << pos[1] + pr[1] - cs[c][1], pos[2] + pr[2] - cs[c][2] >>

\* C28: optimize terminates: when it returns, the loop has run exactly its
\* iteration budget, and a projection pass is at most three translation
\* attempts per movable entity, whether or not the entity ends inside.
C28_Theorem ==
    /\ (pc = "opt_done" /\ Movable # {}) => iter = MaxIter
    /\ (pc = "iter" /\ iter = 0)
       => \A id \in Movable :
             assets[id].pos
               = ProjectAttempt(room,
                   ProjectAttempt(room,
                     ProjectAttempt(room, cfg[id].pos, cfg[id].size, cfg[id].rot),
                     cfg[id].size, cfg[id].rot),
                   cfg[id].size, cfg[id].rot)

\* optimize returned after its full budget although the last projection
\* pass left a corner of a movable entity outside the room
C28_Witness ==
    /\ pc = "opt_done"
    /\ iter = MaxIter
    /\ \E id \in Returned : OutsideCorners(assets, id) # {}

\* accepted Distance constraints of a subject whose target is not a void
FurnitureDistances(cs, subject) ==
    Cardinality({ n \in 1..Len(cs) :
                    /\ cs[n].name = "distance_constraint"
                    /\ cs[n].ids[1] = subject
                    /\ ~IsVoid(cs[n].ids[2]) })

\* C29: after any sequence of filter runs a subject has at most three
\* accepted Distance constraints to targets that are not voids, and a
\* Distance to a void is never rejected on account of the count.
C29_Theorem ==
    /\ \A s \in Active : FurnitureDistances(allConstraints, s) <= MaxDistCount + 1
    /\ \A n \in 1..Len(flog) :
          (flog[n].tag = "rejected" /\ flog[n].req.name = "distance_constraint")
          => ~IsVoid(flog[n].req.ids[2])

\* a subject holds three Distance constraints to furniture and a further
\* Distance request of it was rejected in the last run
C29_Witness ==
    \E s \in Active :
        /\ FurnitureDistances(allConstraints, s) = MaxDistCount + 1
        /\ \E n \in 1..Len(flog) :
              /\ flog[n].tag = "rejected"
              /\ flog[n].req.name = "distance_constraint"
              /\ flog[n].req.ids[1] = s

\* a request that names a synthetic fixed point as subject or target
NamesFixedPoint(c) == c.ids[1] \in FixedIds \/ c.ids[2] \in FixedIds

\* C30: the filter never accepts a request whose subject or target is a
\* fixed point: no such request is in the filtered list, among the
\* accepted constraints or in the log.
C30_Theorem ==
    /\ \A n \in 1..Len(filtered) : ~NamesFixedPoint(filtered[n])
    /\ \A n \in 1..Len(allConstraints) : ~NamesFixedPoint(allConstraints[n])
    /\ \A n \in 1..Len(onTopOfAssets) : onTopOfAssets[n][2] \notin FixedIds
    /\ \A n \in 1..Len(flog) : ~NamesFixedPoint(flog[n].req)

\* a segment with a stacking request onto a fixed point and an orientation
\* request towards a fixed point went through the filter, which accepted
\* nothing and logged nothing
C30_Witness ==
    /\ pc = "env"
    /\ runs > 0
    /\ Len(program) = 2
    /\ program[1].name = "on_top_of" /\ program[1].ids[2] \in FixedIds
    /\ program[2].name = "point_towards" /\ program[2].ids[2] \in FixedIds
    /\ filtered = <<>>
    /\ flog = <<>>

=============================================================================
